---- MODULE Spec2Model ----
(***************************************************************************)
(* Model of internal/pipe/brew/brew.go (goreleaser's homebrew tap pipe).   *)
(*                                                                         *)
(* Strings whose bytes the code inspects (install snippets, skip_upload,   *)
(* formula text, binary names) are sequences of byte values; strings the   *)
(* code only compares or passes on are TLA+ strings.                       *)
(*                                                                         *)
(* Four specifications share the variables:                                *)
(*   SpecSanitize  the sanitization pass of doBuildFormula                 *)
(*   SpecInstalls  installs                                                *)
(*   SpecRun       runAll / doRun / dataFor (the Run phase)                *)
(*   SpecPublish   publishAll / doPublish (the Publish phase)              *)
(***************************************************************************)
EXTENDS Integers, Sequences, FiniteSets, TLC

VARIABLES
    fnPc, fnIn, fnOut, fnOut2,          \* pure-function specifications
    brews, artifacts, files, runIdx, runPc, runErr, runLog, lastData,
    prerelease, clientPR, pubIdx, pubPc, pubErr, skips, calls, pubLog

fnVars  == <<fnPc, fnIn, fnOut, fnOut2>>
runVars == <<brews, files, runIdx, runPc, runErr, runLog, lastData>>
pubVars == <<prerelease, clientPR, pubIdx, pubPc, pubErr, skips, calls, pubLog>>
vars    == <<fnVars, runVars, pubVars, artifacts>>

FnIdle  == fnPc = "idle" /\ fnIn = <<>> /\ fnOut = <<>> /\ fnOut2 = <<>>
RunIdle == /\ brews = <<>> /\ files = <<>> /\ runIdx = 0 /\ runPc = "idle"
           /\ runErr = "nil" /\ runLog = <<>> /\ lastData = <<>>
PubIdle == /\ prerelease = "" /\ clientPR = FALSE /\ pubIdx = 0 /\ pubPc = "idle" /\ pubErr = "nil"
           /\ skips = <<>> /\ calls = <<>> /\ pubLog = <<>>

-----------------------------------------------------------------------------
(* Bounds *)
MaxContentLen == 4
MaxStrLen == 2
MaxBins == 2
MaxArtifacts == 2
MaxBrews == 2
MaxFormulas == 2

-----------------------------------------------------------------------------
(* Byte strings *)

\* all sequences over S of length at most n
SeqsUpTo(S, n) == UNION {[1..k -> S] : k \in 0..n}

Range(s) == {s[i] : i \in DOMAIN s}

RECURSIVE Flatten(_)
Flatten(ss) == IF ss = <<>> THEN <<>> ELSE Head(ss) \o Flatten(Tail(ss))

\* Go's string comparison: byte-wise lexicographic
RECURSIVE StrLess(_, _)
StrLess(a, b) ==
    IF b = <<>> THEN FALSE
    ELSE IF a = <<>> THEN TRUE
    ELSE IF Head(a) # Head(b) THEN Head(a) < Head(b)
    ELSE StrLess(Tail(a), Tail(b))

\* unicode.IsSpace on the bytes used here: \t \n \v \f \r and space
IsSpace(c) == c \in {9, 10, 11, 12, 13, 32}

RECURSIVE TrimLeftSpace(_)
TrimLeftSpace(s) ==
    IF s # <<>> /\ IsSpace(Head(s)) THEN TrimLeftSpace(Tail(s)) ELSE s

RECURSIVE TrimRightSpace(_)
TrimRightSpace(s) ==
    IF s # <<>> /\ IsSpace(s[Len(s)])
    THEN TrimRightSpace(SubSeq(s, 1, Len(s) - 1)) ELSE s

\* strings.TrimSpace
TrimSpace(s) == TrimRightSpace(TrimLeftSpace(s))

\* bytes.IndexByte, 1-based; 0 when c does not occur
IndexByte(s, c) ==
    IF \E i \in DOMAIN s : s[i] = c
    THEN CHOOSE i \in DOMAIN s : s[i] = c /\ \A j \in 1..(i - 1) : s[j] # c
    ELSE 0

\* strings.Split(s, "\n"): always at least one element
RECURSIVE SplitNL(_)
SplitNL(s) ==
    LET i == IndexByte(s, 10) IN
    IF i = 0 THEN <<s>>
    ELSE <<SubSeq(s, 1, i - 1)>> \o SplitNL(SubSeq(s, i + 1, Len(s)))

\* split: trim, split on newlines, and no line at all for the empty string
split(s) ==
    LET strs == SplitNL(TrimSpace(s)) IN
    IF Len(strs) = 1 /\ strs[1] = <<>> THEN <<>> ELSE strs

-----------------------------------------------------------------------------
(* doBuildFormula: the sanitization pass *)

\* bufio.ScanLines drops one trailing \r of each line
dropCR(l) ==
    IF l # <<>> /\ l[Len(l)] = 13 THEN SubSeq(l, 1, Len(l) - 1) ELSE l

\* the tokens s.Scan()/s.Text() yield: lines ended by \n, a last unterminated
\* line only when it is not empty
RECURSIVE ScanLines(_)
ScanLines(data) ==
    IF data = <<>> THEN <<>>
    ELSE LET i == IndexByte(data, 10) IN
         IF i = 0 THEN <<dropCR(data)>>
         ELSE <<dropCR(SubSeq(data, 1, i - 1))>>
              \o ScanLines(SubSeq(data, i + 1, Len(data)))

\* strings.TrimRight(l, " "): the cutset holds the space only
RECURSIVE TrimRightCutset(_)
TrimRightCutset(l) ==
    IF l # <<>> /\ l[Len(l)] = 32
    THEN TrimRightCutset(SubSeq(l, 1, Len(l) - 1)) ELSE l

\* the loop of doBuildFormula: every scanned line trimmed and ended by \n
SanitizeText(content) ==
    LET ls == ScanLines(content) IN
    Flatten([i \in DOMAIN ls |-> TrimRightCutset(ls[i]) \o <<10>>])

\* substituted template output: space, tab, \n, \r and a letter
ContentBytes == {9, 10, 13, 32, 97}

InitSanitize ==
    /\ fnPc = "start"
    /\ fnIn \in SeqsUpTo(ContentBytes, MaxContentLen)
    /\ fnOut = <<>> /\ fnOut2 = <<>>
    /\ RunIdle /\ PubIdle /\ artifacts = <<>>

\* the pass applied to the substituted text
Sanitize ==
    /\ fnPc = "start"
    /\ fnOut' = SanitizeText(fnIn)
    /\ fnPc' = "sanitized"
    /\ UNCHANGED <<fnIn, fnOut2, runVars, pubVars, artifacts>>

\* the same pass applied to its own output
Resanitize ==
    /\ fnPc = "sanitized"
    /\ fnOut2' = SanitizeText(fnOut)
    /\ fnPc' = "resanitized"
    /\ UNCHANGED <<fnIn, fnOut, runVars, pubVars, artifacts>>

NextSanitize == Sanitize \/ Resanitize

SpecSanitize == InitSanitize /\ [][NextSanitize]_vars

\* a line of text t ends with a space or a tab
TrailingHWS(t) ==
    \E i \in DOMAIN t :
        /\ t[i] \in {9, 32}
        /\ (i = Len(t) \/ t[i + 1] = 10)

\* C8: the sanitized text has no line ending in a space or a tab, and
\* sanitizing it again returns it unchanged.
C8_SanitizeClean ==
    /\ fnPc \in {"sanitized", "resanitized"} => ~TrailingHWS(fnOut)
    /\ fnPc = "resanitized" => fnOut2 = fnOut

\* the two halves of C8, for the record of which inputs break which
C8_NoTrailing == fnPc \in {"sanitized", "resanitized"} => ~TrailingHWS(fnOut)
C8_Idempotent == fnPc = "resanitized" => fnOut2 = fnOut
\* the half of C8 the code does keep: no line ends with a space
C8_NoTrailingSpace ==
    fnPc \in {"sanitized", "resanitized"} =>
        ~\E i \in DOMAIN fnOut :
            fnOut[i] = 32 /\ (i = Len(fnOut) \/ fnOut[i + 1] = 10)

-----------------------------------------------------------------------------
(* installs *)

UploadableArchive == "UploadableArchive"
UploadableBinary == "UploadableBinary"
BrewTap == "BrewTap"

\* artifact.ExtraOr: the extra attribute when the artifact carries it
ExtraOr(a, key, default) ==
    IF key \in DOMAIN a.Extra THEN a.Extra[key] ELSE default

\* fmt's %q (strconv.Quote) on the bytes used here
QuoteByte(c) ==
    IF c = 34 THEN <<92, 34>>
    ELSE IF c = 92 THEN <<92, 92>>
    ELSE IF c = 10 THEN <<92, 110>>
    ELSE <<c>>

Quote(s) == <<34>> \o Flatten([i \in DOMAIN s |-> QuoteByte(s[i])]) \o <<34>>

\* "bin.install "
BinInstall == <<98, 105, 110, 46, 105, 110, 115, 116, 97, 108, 108, 32>>

\* fmt.Sprintf("bin.install %q => %q", name, bin)
BinaryLine(name, bin) ==
    BinInstall \o Quote(name) \o <<32, 61, 62, 32>> \o Quote(bin)

\* fmt.Sprintf("bin.install %q", bin)
ArchiveLine(bin) == BinInstall \o Quote(bin)

\* the keys of installMap after the switch on art.Type
installMap(art) ==
    IF art.Type = UploadableBinary
    THEN {BinaryLine(art.Name, ExtraOr(art, "Binary", art.Name))}
    ELSE IF art.Type = UploadableArchive
    THEN LET bins == ExtraOr(art, "Binaries", <<>>) IN
         {ArchiveLine(bins[i]) : i \in DOMAIN bins}
    ELSE {}

\* the orders in which ranging over a Go map may yield its keys
keys(m) ==
    {o \in [1..Cardinality(m) -> m] : \A i, j \in DOMAIN o : i # j => o[i] # o[j]}

\* sort.Strings on a short slice: insertion sort, swapping while less
RECURSIVE InsertString(_, _)
InsertString(sorted, x) ==
    IF sorted # <<>> /\ StrLess(x, sorted[Len(sorted)])
    THEN InsertString(SubSeq(sorted, 1, Len(sorted) - 1), x)
         \o <<sorted[Len(sorted)]>>
    ELSE Append(sorted, x)

RECURSIVE SortStrings(_)
SortStrings(s) ==
    IF s = <<>> THEN <<>>
    ELSE InsertString(SortStrings(SubSeq(s, 1, Len(s) - 1)), s[Len(s)])

TmplError == "template: error"

\* installs: cfg holds what tpl.Apply returned for cfg.Install and
\* cfg.ExtraInstall ([ok, val]); order is the map iteration order of keys
installsNoSort(cfg, art, order) ==
    IF ~cfg.ExtraInstall.ok THEN [err |-> TmplError, lines |-> <<>>]
    ELSE IF ~cfg.Install.ok THEN [err |-> TmplError, lines |-> <<>>]
    ELSE IF cfg.Install.val # <<>>
    THEN [err |-> "nil",
          lines |-> split(cfg.Install.val) \o split(cfg.ExtraInstall.val)]
    ELSE [err |-> "nil", lines |-> order \o split(cfg.ExtraInstall.val)]

installs(cfg, art, order) ==
    IF ~cfg.ExtraInstall.ok THEN [err |-> TmplError, lines |-> <<>>]
    ELSE IF ~cfg.Install.ok THEN [err |-> TmplError, lines |-> <<>>]
    ELSE IF cfg.Install.val # <<>>
    THEN [err |-> "nil",
          lines |-> split(cfg.Install.val) \o split(cfg.ExtraInstall.val)]
    ELSE [err |-> "nil",
          lines |-> SortStrings(order) \o split(cfg.ExtraInstall.val)]

\* binary names: "!", "a", "a!", "aa" and a double quote
BinNames == {<<33>>, <<97>>, <<97, 33>>, <<97, 97>>, <<34>>}

\* the extra attributes an artifact may carry
ExtrasOf(binary, binaries) ==
    {[k \in D |-> IF k = "Binary" THEN b ELSE bs] :
        D \in SUBSET {"Binary", "Binaries"}, b \in binary, bs \in binaries}

InstallArts ==
    {[Type |-> UploadableBinary, Name |-> n, Extra |-> e] :
        n \in BinNames, e \in ExtrasOf(BinNames, {<<<<97>>>>})}
    \cup {[Type |-> UploadableArchive, Name |-> <<97>>, Extra |-> e] :
        e \in ExtrasOf({<<33>>}, SeqsUpTo(BinNames, MaxBins))}
    \cup {[Type |-> "Checksum", Name |-> <<97>>, Extra |-> e] :
        e \in ExtrasOf({<<33>>}, {<<<<97>>, <<33>>>>})}

\* what tpl.Apply may return: a failure, or text of newlines, spaces, "x"
Applied ==
    {[ok |-> FALSE, val |-> <<>>]}
    \cup {[ok |-> TRUE, val |-> v] : v \in SeqsUpTo({10, 32, 120}, MaxStrLen)}

\* With an install snippet the artifact is not looked at: that case is run
\* on the artifacts that carry one bundled binary and nothing else.
InstallInput(a, i) ==
    /\ i.ok /\ i.val # <<>> =>
           DOMAIN a.Extra = {"Binaries"} /\ Len(a.Extra.Binaries) = 1
    /\ ~i.ok => DOMAIN a.Extra = {"Binaries"}

InitInstalls ==
    /\ fnPc = "start"
    /\ \E a \in InstallArts, i \in Applied, x \in Applied :
           /\ InstallInput(a, i)
           /\ fnIn = [art |-> a, cfg |-> [Install |-> i, ExtraInstall |-> x]]
    /\ fnOut = <<>> /\ fnOut2 = <<>>
    /\ RunIdle /\ PubIdle /\ artifacts = <<>>

Installs ==
    /\ fnPc = "start"
    /\ \E order \in keys(installMap(fnIn.art)) :
           fnOut' = installs(fnIn.cfg, fnIn.art, order)
    /\ fnPc' = "done"
    /\ UNCHANGED <<fnIn, fnOut2, runVars, pubVars, artifacts>>

NextInstalls == Installs

SpecInstalls == InitInstalls /\ [][NextInstalls]_vars

StrictlyAscending(ls) ==
    \A i \in 1..(Len(ls) - 1) : StrLess(ls[i], ls[i + 1])

\* the inferred part of a result: what precedes the extra-install lines
Inferred(r, cfg) ==
    SubSeq(r.lines, 1, Len(r.lines) - Len(split(cfg.ExtraInstall.val)))

AfterInferred(r, cfg) ==
    SubSeq(r.lines, Len(r.lines) - Len(split(cfg.ExtraInstall.val)) + 1,
           Len(r.lines))

\* C7: with an empty substituted install snippet the result is the inferred
\* lines (one for a binary, one per distinct bundled binary for an archive,
\* none for another kind; strictly ascending, so without duplicates) followed
\* by the split extra-install lines; with a non-empty snippet it is the split
\* snippet followed by the split extra-install lines.
C7_Installs ==
    (fnPc = "done" /\ fnIn.cfg.Install.ok /\ fnIn.cfg.ExtraInstall.ok) =>
        LET art == fnIn.art
            cfg == fnIn.cfg
            inf == Inferred(fnOut, cfg)
            bins == IF "Binaries" \in DOMAIN art.Extra
                    THEN Range(art.Extra.Binaries) ELSE {}
        IN
        /\ fnOut.err = "nil"
        /\ Len(fnOut.lines) >= Len(split(cfg.ExtraInstall.val))
        /\ AfterInferred(fnOut, cfg) = split(cfg.ExtraInstall.val)
        /\ cfg.Install.val # <<>> => inf = split(cfg.Install.val)
        /\ cfg.Install.val = <<>> =>
            /\ StrictlyAscending(inf)
            /\ art.Type = UploadableBinary =>
                 inf = <<BinaryLine(art.Name,
                                    IF "Binary" \in DOMAIN art.Extra
                                    THEN art.Extra.Binary ELSE art.Name)>>
            /\ art.Type = UploadableArchive =>
                 /\ Range(inf) = {ArchiveLine(b) : b \in bins}
                 /\ Len(inf) = Cardinality(bins)
            /\ art.Type \notin {UploadableBinary, UploadableArchive} =>
                 inf = <<>>

\* an archive bundling "a" and "!", listed in the order that is not the
\* sorted one, with extra-install lines after the two inferred ones
C7_Witness ==
    /\ fnPc = "done"
    /\ fnIn.cfg.Install = [ok |-> TRUE, val |-> <<>>]
    /\ fnIn.cfg.ExtraInstall.ok /\ split(fnIn.cfg.ExtraInstall.val) # <<>>
    /\ fnIn.art.Type = UploadableArchive
    /\ "Binaries" \in DOMAIN fnIn.art.Extra
    /\ fnIn.art.Extra.Binaries = <<<<97>>, <<33>>>>
    /\ Len(fnOut.lines) = 2 + Len(split(fnIn.cfg.ExtraInstall.val))

-----------------------------------------------------------------------------
(* Errors, recipes, artifacts *)

Nil == [kind |-> "nil", msg |-> ""]
\* pipe.Skip: the skip signal, told from an error by pipe.IsSkip
Skip(reason) == [kind |-> "skip", msg |-> reason]
Err(msg) == [kind |-> "error", msg |-> msg]
IsSkip(err) == err.kind = "skip"

StrTrue == <<116, 114, 117, 101>>      \* "true"
StrAuto == <<97, 117, 116, 111>>       \* "auto"
StrFoo  == <<102, 111, 111>>           \* "foo"
StrBar  == <<98, 97, 114>>             \* "bar"
StrRb   == <<46, 114, 98>>             \* ".rb"

\* config.Homebrew: the fields brew.go reads
Homebrew(name, repoName, gitURL, prEnabled, skipUpload, goamd64, goarm, ids) ==
    [Name |-> name,
     Repository |-> [Name |-> repoName, Git |-> [URL |-> gitURL],
                     PullRequest |-> [Enabled |-> prEnabled]],
     SkipUpload |-> skipUpload,
     Goamd64 |-> goamd64, Goarm |-> goarm, IDs |-> ids,
     Folder |-> "Formula"]

\* the artifact doRun registers for a recipe
FormulaArtifact(brew) ==
    [Name |-> brew.Name \o StrRb,
     Path |-> <<"dist", "homebrew", brew.Folder, brew.Name \o StrRb>>,
     Type |-> BrewTap, Goos |-> "", Goarch |-> "", Goamd64 |-> "", Goarm |-> "",
     Extra |-> [BrewConfig |-> brew]]

\* artifact.ByType
ByType(a, t) == a.Type = t

-----------------------------------------------------------------------------
(* publishAll / doPublish *)

CreateFileCall(client, idx, ok) ==
    [op |-> "CreateFile", client |-> client, formula |-> idx, ok |-> ok]
OpenPullRequestCall(idx, ok) ==
    [op |-> "OpenPullRequest", client |-> "host", formula |-> idx, ok |-> ok]

\* the environment of one doPublish call: the first of its fallible local
\* steps that fails (if any), and what the two network calls return
\* (a call that fails locally reaches no network call it does not also reach
\* without that failure, so the network results vary only without one)
PublishEnvs ==
    {e \in [fail : {"none", "message", "author", "read", "client"},
            createOK : BOOLEAN, prOK : BOOLEAN] :
        /\ e.fail # "none" => (e.createOK /\ e.prOK)
        /\ ~e.createOK => e.prOK}

\* a CreateFile call and what doPublish returns with it
createFile(client, idx, env) ==
    [err |-> IF env.createOK THEN Nil ELSE Err("create file failed"),
     calls |-> <<CreateFileCall(client, idx, env.createOK)>>]

\* mutant: the file is committed before the capability is looked at
pullRequestCreateFirst(idx, env) ==
    IF ~env.createOK THEN createFile("host", idx, env)
    ELSE IF ~clientPR
    THEN [err |-> Err("client does not support pull requests"),
          calls |-> <<CreateFileCall("host", idx, TRUE)>>]
    ELSE [err |-> IF env.prOK THEN Nil ELSE Err("open pull request failed"),
          calls |-> <<CreateFileCall("host", idx, TRUE),
                      OpenPullRequestCall(idx, env.prOK)>>]

\* mutant: the pull request is opened whatever CreateFile returned
pullRequestIgnoreCreateErr(idx, env) ==
    IF ~clientPR
    THEN [err |-> Err("client does not support pull requests"), calls |-> <<>>]
    ELSE [err |-> IF env.prOK THEN Nil ELSE Err("open pull request failed"),
          calls |-> <<CreateFileCall("host", idx, env.createOK),
                      OpenPullRequestCall(idx, env.prOK)>>]

\* doPublish with brews.pull_request enabled
pullRequest(idx, env) ==
    IF ~clientPR
    THEN [err |-> Err("client does not support pull requests"), calls |-> <<>>]
    ELSE IF ~env.createOK THEN createFile("host", idx, env)
    ELSE [err |-> IF env.prOK THEN Nil ELSE Err("open pull request failed"),
          calls |-> <<CreateFileCall("host", idx, TRUE),
                      OpenPullRequestCall(idx, env.prOK)>>]

\* mutant: only the literal "true" skips
skipUploadTrueOnly(brew) ==
    IF TrimSpace(brew.SkipUpload) = StrTrue
    THEN Skip("brew.skip_upload is set")
    ELSE Nil

\* the two skip rules of doPublish
skipUpload(brew) ==
    IF TrimSpace(brew.SkipUpload) = StrTrue
    THEN Skip("brew.skip_upload is set")
    ELSE IF TrimSpace(brew.SkipUpload) = StrAuto /\ prerelease # ""
    THEN Skip("prerelease detected with 'auto' upload, skipping homebrew publish")
    ELSE Nil

\* doPublish from the git URL test on
upload(brew, idx, env) ==
    IF brew.Repository.Git.URL # "" THEN createFile("git", idx, env)
    ELSE IF env.fail = "client"
    THEN [err |-> Err("client: new with token failed"), calls |-> <<>>]
    ELSE IF ~brew.Repository.PullRequest.Enabled
    THEN createFile("host", idx, env)
    ELSE pullRequest(idx, env)

doPublish(formula, idx, env) ==
    IF "BrewConfig" \notin DOMAIN formula.Extra
    THEN [err |-> Err("extra: BrewConfig not found"), calls |-> <<>>]
    ELSE LET brew == formula.Extra.BrewConfig IN
         IF skipUpload(brew) # Nil
         THEN [err |-> skipUpload(brew), calls |-> <<>>]
         ELSE IF env.fail = "message"
         THEN [err |-> Err("template: commit message"), calls |-> <<>>]
         ELSE IF env.fail = "author"
         THEN [err |-> Err("template: commit author"), calls |-> <<>>]
         ELSE IF env.fail = "read"
         THEN [err |-> Err("read formula file"), calls |-> <<>>]
         ELSE upload(brew, idx, env)

\* the errors doPublish returns before it chooses the upload path
BeforeUpload ==
    {Err("template: commit message"), Err("template: commit author"),
     Err("read formula file")}

\* ctx.Artifacts.Filter(artifact.ByType(artifact.BrewTap)).List()
Formulas == SelectSeq(artifacts, LAMBDA a : ByType(a, BrewTap))

\* pipe.SkipMemento
Remember(memento, err) == Append(memento, err.msg)

RECURSIVE Join(_, _)
Join(ss, sep) ==
    IF ss = <<>> THEN ""
    ELSE IF Len(ss) = 1 THEN ss[1]
    ELSE ss[1] \o sep \o Join(Tail(ss), sep)

Evaluate(memento) == IF memento = <<>> THEN Nil ELSE Skip(Join(memento, ", "))

\* the recipes a formula artifact may carry: doRun registers none whose
\* repository name is unset
PublishBrews ==
    {Homebrew(StrFoo, "tap", git, pr, skip, "v1", "6", <<>>) :
        git \in {"", "https://example.com/tap.git"},
        pr \in BOOLEAN,
        skip \in {<<>>, StrTrue, StrAuto, <<32>> \o StrAuto \o <<10>>}}

\* a build artifact that is no formula
SomeArchive ==
    [Name |-> <<97>>, Path |-> <<"dist", <<97>>>>, Type |-> UploadableArchive,
     Goos |-> "linux", Goarch |-> "amd64", Goamd64 |-> "v1", Goarm |-> "",
     Extra |-> [ID |-> "a", Format |-> "tar.gz", Binaries |-> <<<<97>>>>]]

PublishArtifacts == {FormulaArtifact(b) : b \in PublishBrews} \cup {SomeArchive}

InitPublish ==
    /\ artifacts \in SeqsUpTo(PublishArtifacts, MaxFormulas)
    /\ prerelease \in {"", "rc1"}
    /\ clientPR \in BOOLEAN
    /\ pubIdx = 1 /\ pubPc = "loop" /\ pubErr = Nil
    /\ skips = <<>> /\ calls = <<>> /\ pubLog = <<>>
    /\ FnIdle /\ RunIdle

\* mutant: the loop returns the first skip, as it does any other error
PublishStepReturnSkip ==
    /\ pubPc = "loop"
    /\ pubIdx <= Len(Formulas)
    /\ \E env \in PublishEnvs :
         LET r == doPublish(Formulas[pubIdx], pubIdx, env) IN
         /\ calls' = calls \o r.calls
         /\ pubLog' = Append(pubLog, [formula |-> pubIdx, err |-> r.err])
         /\ \/ /\ r.err # Nil
               /\ pubErr' = r.err /\ pubPc' = "done"
               /\ UNCHANGED <<skips, pubIdx>>
            \/ /\ r.err = Nil
               /\ pubIdx' = pubIdx + 1
               /\ UNCHANGED <<skips, pubErr, pubPc>>
    /\ UNCHANGED <<prerelease, clientPR, artifacts, fnVars, runVars>>

\* one iteration of publishAll's loop
PublishStep ==
    /\ pubPc = "loop"
    /\ pubIdx <= Len(Formulas)
    /\ \E env \in PublishEnvs :
         LET r == doPublish(Formulas[pubIdx], pubIdx, env) IN
         /\ calls' = calls \o r.calls
         /\ pubLog' = Append(pubLog, [formula |-> pubIdx, err |-> r.err])
         /\ \/ /\ IsSkip(r.err)
               /\ skips' = Remember(skips, r.err)
               /\ pubIdx' = pubIdx + 1
               /\ UNCHANGED <<pubErr, pubPc>>
            \/ /\ r.err # Nil /\ ~IsSkip(r.err)
               /\ pubErr' = r.err /\ pubPc' = "done"
               /\ UNCHANGED <<skips, pubIdx>>
            \/ /\ r.err = Nil
               /\ pubIdx' = pubIdx + 1
               /\ UNCHANGED <<skips, pubErr, pubPc>>
    /\ UNCHANGED <<prerelease, clientPR, artifacts, fnVars, runVars>>

\* publishAll after the loop: return skips.Evaluate()
PublishReturn ==
    /\ pubPc = "loop"
    /\ pubIdx > Len(Formulas)
    /\ pubErr' = Evaluate(skips)
    /\ pubPc' = "done"
    /\ UNCHANGED <<prerelease, clientPR, pubIdx, skips, calls, pubLog,
                   artifacts, fnVars, runVars>>

NextPublish == PublishStep \/ PublishReturn

SpecPublish == InitPublish /\ [][NextPublish]_vars

\* the recipe carried by the i-th formula artifact, and the network calls
\* issued for it
BrewOf(i) == Formulas[i].Extra.BrewConfig
CallsOf(i) == SelectSeq(calls, LAMBDA c : c.formula = i)

CapabilityError == Err("client does not support pull requests")
ClientError == Err("client: new with token failed")

\* doPublish got as far as the pull-request branch for log entry k
OnPullRequestPath(k) ==
    LET b == BrewOf(pubLog[k].formula)
        e == pubLog[k].err
    IN /\ b.Repository.Git.URL = ""
       /\ b.Repository.PullRequest.Enabled
       /\ ~IsSkip(e) /\ e \notin BeforeUpload /\ e # ClientError

\* C1: on the pull-request path with a client that cannot open pull
\* requests, doPublish fails with the capability error and has issued no
\* CreateFile and no OpenPullRequest call.
C1_CapabilityBeforeCommit ==
    \A k \in DOMAIN pubLog :
        (OnPullRequestPath(k) /\ ~clientPR) =>
            /\ pubLog[k].err = CapabilityError
            /\ CallsOf(pubLog[k].formula) = <<>>

\* a publication that ended with the capability error, after an earlier
\* formula was committed
C1_Witness ==
    /\ pubPc = "done" /\ ~clientPR
    /\ Len(pubLog) = 2
    /\ OnPullRequestPath(2)
    /\ pubErr = CapabilityError
    /\ Len(calls) = 1

\* the skip rules as the claim states them, on the substituted value
SkipRequested(b) ==
    \/ b.SkipUpload = StrTrue
    \/ b.SkipUpload = StrAuto /\ prerelease # ""

\* C2: a recipe whose skip-upload value is "true", or "auto" on a
\* prerelease, ends doPublish with a skip and without any network call.
C2_SkipNoNetwork ==
    /\ \A k \in DOMAIN pubLog :
           SkipRequested(BrewOf(pubLog[k].formula)) =>
               IsSkip(pubLog[k].err)
    /\ \A i \in DOMAIN Formulas :
           SkipRequested(BrewOf(i)) => CallsOf(i) = <<>>

\* "auto" on a prerelease skipped, next to a recipe that was uploaded
C2_Witness ==
    /\ pubPc = "done"
    /\ Len(pubLog) = 2
    /\ prerelease # ""
    /\ BrewOf(2).SkipUpload = StrAuto
    /\ IsSkip(pubLog[2].err)
    /\ Len(calls) = 1 /\ calls[1].formula = 1

\* the reasons of the skipped attempts, in the order of the attempts
SkipReasons ==
    LET skipped == SelectSeq(pubLog, LAMBDA e : IsSkip(e.err)) IN
    [k \in DOMAIN skipped |-> skipped[k].err.msg]

\* C3: publishAll attempts the formula artifacts in order; a skip never ends
\* the loop, nothing is returned while the loop runs, and unless a recipe
\* fails with a non-skip error every formula artifact is attempted before
\* the collected skips are returned as one skip (or nil when there is none).
C3_SkipsBatched ==
    /\ \A k \in DOMAIN pubLog : pubLog[k].formula = k
    /\ pubPc = "loop" => (pubErr = Nil /\ Len(pubLog) = pubIdx - 1)
    /\ (pubPc = "done" /\ \A k \in DOMAIN pubLog :
                              pubLog[k].err = Nil \/ IsSkip(pubLog[k].err)) =>
           /\ Len(pubLog) = Len(Formulas)
           /\ skips = SkipReasons
           /\ SkipReasons = <<>> => pubErr = Nil
           /\ SkipReasons # <<>> => IsSkip(pubErr)

\* the first recipe skipped, the second still published, one skip returned
C3_Witness ==
    /\ pubPc = "done"
    /\ Len(Formulas) = 2 /\ Len(pubLog) = 2
    /\ IsSkip(pubLog[1].err)
    /\ pubLog[2].err = Nil
    /\ CallsOf(2) # <<>>
    /\ IsSkip(pubErr)

\* log entry k's doPublish reached the choice of the upload path
ReachedUpload(k) ==
    ~IsSkip(pubLog[k].err) /\ pubLog[k].err \notin BeforeUpload

\* C10: a pull request is opened only for a recipe without git URL, with
\* pull requests enabled, on a client that supports them, and after that
\* client's CreateFile succeeded in the same call; the git URL path issues
\* exactly one CreateFile on the git client and nothing else, and with pull
\* requests disabled exactly one CreateFile is issued and nothing else.
C10_PullRequestLast ==
    /\ \A k \in DOMAIN calls :
           calls[k].op = "OpenPullRequest" =>
               LET b == BrewOf(calls[k].formula) IN
               /\ b.Repository.Git.URL = ""
               /\ b.Repository.PullRequest.Enabled
               /\ clientPR
               /\ \E j \in 1..(k - 1) :
                      calls[j] = CreateFileCall("host", calls[k].formula, TRUE)
    /\ \A k \in DOMAIN pubLog :
           LET i == pubLog[k].formula
               b == BrewOf(i)
           IN
           /\ (ReachedUpload(k) /\ b.Repository.Git.URL # "") =>
                  /\ Len(CallsOf(i)) = 1
                  /\ CallsOf(i)[1].op = "CreateFile"
                  /\ CallsOf(i)[1].client = "git"
           /\ (ReachedUpload(k) /\ b.Repository.Git.URL = ""
                 /\ ~b.Repository.PullRequest.Enabled
                 /\ pubLog[k].err # ClientError) =>
                  /\ Len(CallsOf(i)) = 1
                  /\ CallsOf(i)[1].op = "CreateFile"
                  /\ CallsOf(i)[1].client = "host"

\* a git URL recipe with pull requests enabled committed by one CreateFile,
\* then a recipe published through a pull request
C10_Witness ==
    /\ pubPc = "done"
    /\ Len(pubLog) = 2
    /\ BrewOf(1).Repository.Git.URL # ""
    /\ BrewOf(1).Repository.PullRequest.Enabled
    /\ Len(calls) = 3
    /\ calls[1] = CreateFileCall("git", 1, TRUE)
    /\ calls[2] = CreateFileCall("host", 2, TRUE)
    /\ calls[3].op = "OpenPullRequest"

-----------------------------------------------------------------------------
(* runAll / doRun / dataFor *)

ErrMultipleArchivesSameOS ==
    Err("one tap can handle only one archive of an OS/Arch combination. Consider using ids in the brew section")

\* the ErrNoArchivesFound value doRun returns
noArchivesFoundSwapped(brew) ==
    [kind |-> "error", msg |-> "no linux/macos archives found",
     goamd64 |-> brew.Goarm, goarm |-> brew.Goamd64, ids |-> brew.IDs]

noArchivesFound(brew) ==
    [kind |-> "error", msg |-> "no linux/macos archives found",
     goamd64 |-> brew.Goamd64, goarm |-> brew.Goarm, ids |-> brew.IDs]

\* the filters of package artifact
ByGoos(a, s) == a.Goos = s
ByGoarch(a, s) == a.Goarch = s
ByGoamd64(a, s) == a.Goamd64 = s
ByGoarm(a, s) == a.Goarm = s
ByFormats(a, formats) == ExtraOr(a, "Format", "") \in formats
ByIDs(a, ids) == ExtraOr(a, "ID", "") \in Range(ids)
OnlyReplacingUnibins(a) == ExtraOr(a, "Replaces", TRUE)

\* artifact.And(filters...) as doRun builds it
brewFilter(brew, a) ==
    /\ (ByGoos(a, "darwin") \/ ByGoos(a, "linux"))
    /\ \/ (ByGoarch(a, "amd64") /\ ByGoamd64(a, brew.Goamd64))
       \/ ByGoarch(a, "arm64")
       \/ ByGoarch(a, "all")
       \/ (ByGoarch(a, "arm") /\ ByGoarm(a, brew.Goarm))
    /\ \/ (ByFormats(a, {"zip", "tar.gz"}) /\ ByType(a, UploadableArchive))
       \/ ByType(a, UploadableBinary)
    /\ OnlyReplacingUnibins(a)
    /\ (Len(brew.IDs) > 0 => ByIDs(a, brew.IDs))

\* the bytes of the GOOS and GOARCH values, for Go's string order
Bytes(s) ==
    CASE s = "darwin"  -> <<100, 97, 114, 119, 105, 110>>
      [] s = "linux"   -> <<108, 105, 110, 117, 120>>
      [] s = "windows" -> <<119, 105, 110, 100, 111, 119, 115>>
      [] s = "all"     -> <<97, 108, 108>>
      [] s = "amd64"   -> <<97, 109, 100, 54, 52>>
      [] s = "arm"     -> <<97, 114, 109>>
      [] s = "arm64"   -> <<97, 114, 109, 54, 52>>
      [] OTHER         -> <<>>

Greater(s, t) == StrLess(Bytes(t), Bytes(s))

\* lessFnFor: the comparator handed to sort.Slice
lessFnFor(a, b) == Greater(a.OS, b.OS) /\ Greater(a.Arch, b.Arch)

\* sort.Slice on a short slice: insertion sort, swapping while less
RECURSIVE InsertPackage(_, _)
InsertPackage(sorted, x) ==
    IF sorted # <<>> /\ lessFnFor(x, sorted[Len(sorted)])
    THEN InsertPackage(SubSeq(sorted, 1, Len(sorted) - 1), x)
         \o <<sorted[Len(sorted)]>>
    ELSE Append(sorted, x)

RECURSIVE SortPackages(_)
SortPackages(s) ==
    IF s = <<>> THEN <<>>
    ELSE InsertPackage(SortPackages(SubSeq(s, 1, Len(s) - 1)), s[Len(s)])

\* the loop over counts: some OS/arch key counted more than twice (mutant)
multipleArchivesOverTwo(pkgs) ==
    \E i \in DOMAIN pkgs :
        Cardinality({j \in DOMAIN pkgs :
            pkgs[j].OS \o pkgs[j].Arch = pkgs[i].OS \o pkgs[i].Arch}) > 2

\* the loop over counts: some key pkg.OS+pkg.Arch was counted more than once
multipleArchives(pkgs) ==
    \E i \in DOMAIN pkgs :
        Cardinality({j \in DOMAIN pkgs :
            pkgs[j].OS \o pkgs[j].Arch = pkgs[i].OS \o pkgs[i].Arch}) > 1

\* the environment of one doRun call: the first fallible step that fails
RunEnvs ==
    {"none", "name", "repository", "skip_upload", "checksum", "release_url",
     "url", "install", "template", "mkdir", "write"}

IOError == Err("i/o error")

\* the releasePackage of one artifact. The artifacts of this specification
\* bundle at most one binary, so keys has one order to offer.
releasePackage(cfg, art, env) ==
    LET order == CHOOSE o \in keys(installMap(art)) : TRUE
        ins == installs([Install |-> [ok |-> env # "install", val |-> <<>>],
                         ExtraInstall |-> [ok |-> TRUE, val |-> <<>>]],
                        art, order)
    IN [DownloadURL |-> <<"release", art.Name>>,
        SHA256 |-> <<"sha256", art.Name>>,
        OS |-> art.Goos, Arch |-> art.Goarch,
        Install |-> ins.lines]

NoData ==
    [called |-> 0, err |-> Nil, candidates |-> <<>>, Name |-> <<>>,
     MacOSPackages |-> <<>>, LinuxPackages |-> <<>>,
     HasOnlyAmd64MacOsPkg |-> FALSE]

\* the packages the switch on pkg.OS appends to one OS family's list
byOS(pkgs, os) == SelectSeq(pkgs, LAMBDA q : q.OS = os)

\* dataFor once the loop has built pkgs, the releasePackage of each artifact
dataForPackages(cfg, arts, pkgs, env) ==
    LET result == [NoData EXCEPT !.called = 1, !.candidates = arts,
                                 !.Name = cfg.Name]
    IN
    IF arts # <<>> /\ env \in {"checksum", "release_url"}
    THEN [result EXCEPT !.err = IOError]
    ELSE IF arts # <<>> /\ env \in {"url", "install"}
    THEN [result EXCEPT !.err = Err(TmplError)]
    ELSE IF multipleArchives(pkgs)
    THEN [result EXCEPT !.err = ErrMultipleArchivesSameOS,
                        !.MacOSPackages = byOS(pkgs, "darwin"),
                        !.LinuxPackages = byOS(pkgs, "linux")]
    ELSE [result EXCEPT
            !.MacOSPackages = SortPackages(byOS(pkgs, "darwin")),
            !.LinuxPackages = SortPackages(byOS(pkgs, "linux")),
            !.HasOnlyAmd64MacOsPkg =
                /\ Len(byOS(pkgs, "darwin")) = 1
                /\ byOS(pkgs, "darwin")[1].Arch = "amd64"]

\* dataFor: the template data of the candidate artifacts, or the error
dataFor(cfg, arts, env) ==
    dataForPackages(cfg, arts,
                    [i \in DOMAIN arts |-> releasePackage(cfg, arts[i], env)],
                    env)

\* buildFormula: dataFor, then doBuildFormula on its data
doBuildFormula(data, env) ==
    IF data.err # Nil THEN [err |-> data.err, data |-> data]
    ELSE IF env = "template" THEN [err |-> Err(TmplError), data |-> data]
    ELSE [err |-> Nil, data |-> data]

buildFormula(brew, archives, env) ==
    doBuildFormula(dataFor(brew, archives, env), env)

\* doRun once the artifacts are filtered and, when it comes to that, the
\* formula is built: err, the resolved recipe, dataFor's result when it was
\* called, and whether the formula file was written
doRunWith(brew, archives, content, env) ==
    IF brew.Repository.Name = ""
    THEN [err |-> Skip("brew.repository.name is not set"), brew |-> brew,
          data |-> NoData, wrote |-> FALSE]
    ELSE IF Len(archives) = 0
    THEN [err |-> noArchivesFound(brew), brew |-> brew,
          data |-> NoData, wrote |-> FALSE]
    ELSE IF env \in {"name", "repository", "skip_upload"}
    THEN [err |-> Err(TmplError), brew |-> brew,
          data |-> NoData, wrote |-> FALSE]
    ELSE [err |-> IF content.err # Nil THEN content.err
                  ELSE IF env = "mkdir" THEN IOError
                  ELSE IF env = "write"
                  THEN Err("failed to write brew formula")
                  ELSE Nil,
          brew |-> brew,
          data |-> content.data,
          wrote |-> content.err = Nil /\ env \notin {"mkdir", "write"}]

doRun(brew, env) ==
    doRunWith(brew,
              SelectSeq(artifacts, LAMBDA a : brewFilter(brew, a)),
              buildFormula(brew,
                           SelectSeq(artifacts, LAMBDA a : brewFilter(brew, a)),
                           env),
              env)

\* os.WriteFile(path, content)
WriteFile(fs, path, content) ==
    [q \in DOMAIN fs \cup {path} |-> IF q = path THEN content ELSE fs[q]]

\* build artifacts: name, platform, kind and extra attributes
Build(name, goos, goarch, goamd64, goarm, type, extra) ==
    [Name |-> name, Path |-> <<"dist", name>>, Type |-> type,
     Goos |-> goos, Goarch |-> goarch, Goamd64 |-> goamd64, Goarm |-> goarm,
     Extra |-> extra]

Archive(id, format) == [ID |-> id, Format |-> format, Binaries |-> <<<<97>>>>]

BuildArtifacts ==
    { Build(<<97>>, "darwin", "amd64", "v1", "", UploadableArchive,
            Archive("a", "tar.gz")),
      Build(<<98>>, "darwin", "arm64", "", "", UploadableArchive,
            Archive("a", "tar.gz")),
      Build(<<99>>, "darwin", "arm64", "", "", UploadableBinary,
            [ID |-> "b", Binary |-> <<97>>]),
      Build(<<100>>, "linux", "arm", "", "6", UploadableArchive,
            Archive("a", "zip")),
      Build(<<101>>, "darwin", "all", "", "", UploadableArchive,
            [ID |-> "a", Format |-> "tar.gz", Binaries |-> <<<<97>>>>,
             Replaces |-> TRUE]),
      Build(<<102>>, "darwin", "all", "", "", UploadableArchive,
            [ID |-> "a", Format |-> "tar.gz", Binaries |-> <<<<97>>>>,
             Replaces |-> FALSE]),
      Build(<<103>>, "darwin", "amd64", "v3", "", UploadableArchive,
            Archive("a", "tar.gz")),
      Build(<<104>>, "linux", "arm", "", "7", UploadableArchive,
            Archive("a", "tar.gz")),
      Build(<<105>>, "windows", "amd64", "v1", "", UploadableArchive,
            Archive("a", "zip")),
      Build(<<107>>, "linux", "amd64", "v1", "", UploadableArchive,
            Archive("a", "tar.xz")),
      Build(<<108>>, "linux", "amd64", "v1", "", "Binary",
            [ID |-> "a", Binary |-> <<97>>]) }

\* the recipes of a run: one without repository name, the defaults of
\* Pipe.Default (goamd64 v1, goarm 6), and one with its own variants and ids
RunBrews ==
    { Homebrew(StrFoo, "", "", FALSE, <<>>, "v1", "6", <<>>),
      Homebrew(StrFoo, "tap", "", FALSE, <<>>, "v1", "6", <<>>),
      Homebrew(StrBar, "tap", "", FALSE, <<>>, "v3", "7", <<"a">>) }

InitRun ==
    /\ brews \in SeqsUpTo(RunBrews, MaxBrews)
    /\ artifacts \in SeqsUpTo(BuildArtifacts, MaxArtifacts)
    /\ files = <<>>
    /\ runIdx = 1 /\ runPc = "loop" /\ runErr = Nil
    /\ runLog = <<>> /\ lastData = NoData
    /\ FnIdle /\ PubIdle

\* what one doRun call leaves behind, r being what it did and returned
runEffects(r) ==
    /\ runLog' = Append(runLog, [brew |-> runIdx, err |-> r.err])
    /\ lastData' = IF r.data.called # 0
                   THEN [r.data EXCEPT !.called = runIdx] ELSE lastData
    /\ files' = IF r.wrote
                THEN WriteFile(files, FormulaArtifact(r.brew).Path, r.data)
                ELSE files
    /\ artifacts' = IF r.err = Nil
                    THEN Append(artifacts, FormulaArtifact(r.brew))
                    ELSE artifacts
    /\ IF r.err # Nil
       THEN runErr' = r.err /\ runPc' = "done" /\ UNCHANGED runIdx
       ELSE runIdx' = runIdx + 1 /\ UNCHANGED <<runErr, runPc>>

\* one iteration of runAll's loop
RunStep ==
    /\ runPc = "loop"
    /\ runIdx <= Len(brews)
    /\ \E env \in RunEnvs : runEffects(doRun(brews[runIdx], env))
    /\ UNCHANGED <<brews, fnVars, pubVars>>

\* runAll after the loop: return nil
RunReturn ==
    /\ runPc = "loop"
    /\ runIdx > Len(brews)
    /\ runPc' = "done"
    /\ UNCHANGED <<brews, artifacts, files, runIdx, runErr, runLog, lastData,
                   fnVars, pubVars>>

NextRun == RunStep \/ RunReturn

SpecRun == InitRun /\ [][NextRun]_vars

\* the formula artifacts in the registry, and the paths of their files
Registered == SelectSeq(artifacts, LAMBDA a : ByType(a, BrewTap))
RegisteredPaths == {Registered[i].Path : i \in DOMAIN Registered}

\* the doRun call of log entry k failed and left nothing behind: it is the
\* last call, and files and formula artifacts are those of the k - 1 calls
\* before it, which all succeeded
FailedWithoutOutput(k) ==
    /\ runPc = "done" /\ k = Len(runLog)
    /\ runErr = runLog[k].err /\ runErr # Nil
    /\ \A j \in 1..(k - 1) : runLog[j].err = Nil
    /\ Len(Registered) = k - 1
    /\ DOMAIN files = RegisteredPaths
    /\ Cardinality(DOMAIN files) <= k - 1

\* no artifact of the registry passes the recipe's selection filter
NothingSelected(b) ==
    \A i \in DOMAIN artifacts : ~brewFilter(b, artifacts[i])

\* C4: a recipe without repository name only skips: the recipes after it are
\* still run, so a run that met nothing but skips has attempted every recipe.
C4_SkipDoesNotStopRun ==
    (runPc = "done"
       /\ \A k \in DOMAIN runLog :
              runLog[k].err = Nil \/ IsSkip(runLog[k].err)) =>
        Len(runLog) = Len(brews)

SamePlatform(a, b) == a.Goos = b.Goos /\ a.Goarch = b.Goarch

\* C5: when two candidates share an (OS, architecture) pair and checksums
\* and templates resolve, doRun fails with ErrMultipleArchivesSameOS, no file
\* written and no artifact registered; and when dataFor succeeds neither
\* package list holds two packages of one (OS, architecture) pair.
C5_NoDuplicatePlatform ==
    lastData.called # 0 =>
        LET c == lastData.candidates
            mac == lastData.MacOSPackages
            lin == lastData.LinuxPackages
        IN
        /\ ((\E i, j \in DOMAIN c : i # j /\ SamePlatform(c[i], c[j]))
              /\ lastData.err \notin {IOError, Err(TmplError)}) =>
               /\ lastData.err = ErrMultipleArchivesSameOS
               /\ runLog[lastData.called].err = ErrMultipleArchivesSameOS
               /\ FailedWithoutOutput(lastData.called)
        /\ lastData.err = Nil =>
               /\ \A i, j \in DOMAIN mac :
                      (mac[i].OS = mac[j].OS /\ mac[i].Arch = mac[j].Arch)
                          => i = j
               /\ \A i, j \in DOMAIN lin :
                      (lin[i].OS = lin[j].OS /\ lin[i].Arch = lin[j].Arch)
                          => i = j

\* a first recipe (restricted by ids) written and registered, then a recipe
\* whose two candidates are both darwin/arm64 refused
C5_Witness ==
    /\ runPc = "done" /\ Len(runLog) = 2
    /\ runLog[1].err = Nil
    /\ runErr = ErrMultipleArchivesSameOS
    /\ lastData.called = 2
    /\ Len(lastData.candidates) = 2
    /\ SamePlatform(lastData.candidates[1], lastData.candidates[2])
    /\ Len(Registered) = 1

\* C6 as stated: for every recipe, when no artifact passes the filter doRun
\* fails with ErrNoArchivesFound carrying the recipe's Goamd64, Goarm and
\* IDs, and writes and registers nothing.
C6_NoArchivesAnyRecipe ==
    \A k \in DOMAIN runLog :
        LET b == brews[runLog[k].brew] IN
        NothingSelected(b) =>
            /\ runLog[k].err =
                   [kind |-> "error", msg |-> "no linux/macos archives found",
                    goamd64 |-> b.Goamd64, goarm |-> b.Goarm, ids |-> b.IDs]
            /\ FailedWithoutOutput(k)

\* C6 amended: the same, for every recipe whose repository name is set.
C6_NoArchivesNamedRepository ==
    \A k \in DOMAIN runLog :
        LET b == brews[runLog[k].brew] IN
        (b.Repository.Name # "" /\ NothingSelected(b)) =>
            /\ runLog[k].err =
                   [kind |-> "error", msg |-> "no linux/macos archives found",
                    goamd64 |-> b.Goamd64, goarm |-> b.Goarm, ids |-> b.IDs]
            /\ FailedWithoutOutput(k)

\* a first recipe written and registered, then a recipe with ids and its own
\* variants for which the registry holds nothing
C6_Witness ==
    /\ runPc = "done" /\ Len(runLog) = 2
    /\ runLog[1].err = Nil
    /\ brews[2].Repository.Name # "" /\ NothingSelected(brews[2])
    /\ runErr.msg = "no linux/macos archives found"
    /\ runErr.ids = <<"a">> /\ runErr.goamd64 = "v3" /\ runErr.goarm = "7"
    /\ Len(Registered) = 1

Descending(pkgs) ==
    \A i, j \in DOMAIN pkgs : i < j => Greater(pkgs[i].Arch, pkgs[j].Arch)

\* C9: after a successful dataFor each package list is in strictly
\* descending architecture order (whatever the order of the candidates).
C9_SortedDescending ==
    (lastData.called # 0 /\ lastData.err = Nil) =>
        /\ Descending(lastData.MacOSPackages)
        /\ Descending(lastData.LinuxPackages)

====
